---- MODULE Spec2Model ----
(***************************************************************************)
(* A model of rfol's LK proof checker (src/src/proof.rs): the Sequent      *)
(* accessors, the LK proof tree and Proof::is_valid_inference, with the    *)
(* term/formula algebra of crate::language it calls; of the proof-tree     *)
(* renderer LK::to_string; and of the Tokenizer (src/src/tokenizer.rs).    *)
(*                                                                         *)
(* An evaluation of is_valid_inference ends in one of three outcomes:      *)
(* "true", "false", or "panic" (an index / unwrap failure of a Sequent      *)
(* accessor or of a slice expression).                                     *)
(***************************************************************************)
EXTENDS Integers, Sequences, FiniteSets, TLC

VARIABLES node, result, prevNode, prevResult, pc,
          rendered,
          iter, tokens, input, returned, calls

\* The checker's node and outcomes; the text LK::to_string returned; the
\* Tokenizer's fields with the argument, the result and the number of the
\* tokenize calls made on it.
checkerVars == <<node, result, prevNode, prevResult>>
tokenizerVars == <<iter, tokens, input, returned, calls>>

vars == <<node, result, prevNode, prevResult, pc, rendered, iter, tokens, input, returned, calls>>

(***************************************************************************)
(* Terms and formulas (crate::language).  A value is a tuple whose first   *)
(* component is the variant tag, so that equality is structural and        *)
(* positional, as the derived PartialEq of the Rust enums.                 *)
(***************************************************************************)
Var(name) == <<"Var", name>>
Func(name, args) == <<"Func", name, args>>

Pred(name, args) == <<"Pred", name, args>>
Equal(s, t) == <<"Equal", s, t>>
Not(f) == <<"Not", f>>
And(f, g) == <<"And", f, g>>
Or(f, g) == <<"Or", f, g>>
Implies(f, g) == <<"Implies", f, g>>
Forall(v, f) == <<"Forall", v, f>>
Exists(v, f) == <<"Exists", v, f>>

IsQuantifier(f) == f[1] \in {"Forall", "Exists"}
IsBinary(f) == f[1] \in {"And", "Or", "Implies"}

\* The variables occurring in a term.
RECURSIVE term_vars(_)
term_vars(t) ==
    IF t[1] = "Var" THEN {t}
    ELSE UNION {term_vars(t[3][i]) : i \in DOMAIN t[3]}

\* subterms(Term): the term itself and, recursively, its arguments.
RECURSIVE term_subterms(_)
term_subterms(t) ==
    IF t[1] = "Var" THEN {t}
    ELSE {t} \cup UNION {term_subterms(t[3][i]) : i \in DOMAIN t[3]}

\* Replaces the variable v by the term t in the term s.
RECURSIVE term_substitute(_, _, _)
term_substitute(s, v, t) ==
    IF s[1] = "Var" THEN (IF s = v THEN t ELSE s)
    ELSE Func(s[2], [i \in DOMAIN s[3] |-> term_substitute(s[3][i], v, t)])

\* freeVariables(Formula)
RECURSIVE get_free_vars(_)
get_free_vars(f) ==
    CASE f[1] = "Pred" -> UNION {term_vars(f[3][i]) : i \in DOMAIN f[3]}
      [] f[1] = "Equal" -> term_vars(f[2]) \cup term_vars(f[3])
      [] f[1] = "Not" -> get_free_vars(f[2])
      [] IsBinary(f) -> get_free_vars(f[2]) \cup get_free_vars(f[3])
      [] IsQuantifier(f) -> get_free_vars(f[3]) \ {f[2]}

\* boundVariables(Formula)
RECURSIVE get_bound_vars(_)
get_bound_vars(f) ==
    CASE f[1] \in {"Pred", "Equal"} -> {}
      [] f[1] = "Not" -> get_bound_vars(f[2])
      [] IsBinary(f) -> get_bound_vars(f[2]) \cup get_bound_vars(f[3])
      [] IsQuantifier(f) -> {f[2]} \cup get_bound_vars(f[3])

\* subterms(Formula)
RECURSIVE get_subterms(_)
get_subterms(f) ==
    CASE f[1] = "Pred" -> UNION {term_subterms(f[3][i]) : i \in DOMAIN f[3]}
      [] f[1] = "Equal" -> term_subterms(f[2]) \cup term_subterms(f[3])
      [] f[1] = "Not" -> get_subterms(f[2])
      [] IsBinary(f) -> get_subterms(f[2]) \cup get_subterms(f[3])
      [] IsQuantifier(f) -> get_subterms(f[3])

\* isSubstitutible(f, v, t): for every binder Qw.g occurring in f such that
\* v occurs free in g, w does not occur in t.
RECURSIVE is_substitutible(_, _, _)
is_substitutible(f, v, t) ==
    CASE f[1] \in {"Pred", "Equal"} -> TRUE
      [] f[1] = "Not" -> is_substitutible(f[2], v, t)
      [] IsBinary(f) -> is_substitutible(f[2], v, t) /\ is_substitutible(f[3], v, t)
      [] IsQuantifier(f) ->
            /\ (v \in get_free_vars(f[3]) => f[2] \notin term_vars(t))
            /\ is_substitutible(f[3], v, t)

\* substitute(f, v, t): replaces every free occurrence of v in f by t; the
\* occurrences under a rebinding Qv are left untouched.
RECURSIVE substitute(_, _, _)
substitute(f, v, t) ==
    CASE f[1] = "Pred" ->
            Pred(f[2], [i \in DOMAIN f[3] |-> term_substitute(f[3][i], v, t)])
      [] f[1] = "Equal" -> Equal(term_substitute(f[2], v, t), term_substitute(f[3], v, t))
      [] f[1] = "Not" -> Not(substitute(f[2], v, t))
      [] IsBinary(f) -> <<f[1], substitute(f[2], v, t), substitute(f[3], v, t)>>
      [] IsQuantifier(f) ->
            IF f[2] = v THEN f ELSE <<f[1], f[2], substitute(f[3], v, t)>>

(***************************************************************************)
(* Sequent (proof.rs:5-35).  The accessors index the lists; IsEmpty is the *)
(* condition under which the Rust accessor panics.                         *)
(***************************************************************************)
Sequent(ant, suc) == [antecedent |-> ant, succedent |-> suc]

IsEmpty(list) == Len(list) = 0

ant_first(s) == s.antecedent[1]
suc_last(s) == s.succedent[Len(s.succedent)]
ant_but_first(s) == SubSeq(s.antecedent, 2, Len(s.antecedent))
suc_but_last(s) == SubSeq(s.succedent, 1, Len(s.succedent) - 1)

(***************************************************************************)
(* LK (proof.rs:82-135): a rule tag, the premise subtrees, and the node's  *)
(* own conclusion sequent.                                                 *)
(***************************************************************************)
LK(rule, premises, sequent) == [rule |-> rule, premises |-> premises, sequent |-> sequent]

Axiom(s) == LK("Axiom", <<>>, s)

last(n) == n.sequent

Bool(b) == IF b THEN "true" ELSE "false"

(***************************************************************************)
(* Proof::is_valid_inference (proof.rs:334-639), one operator per match    *)
(* arm.  P, L, R are the premises' stored conclusions (premise.last()), C  *)
(* is the node's conclusion.  The nested IFs follow the arm's evaluation   *)
(* order: operands left to right, && short-circuiting.                     *)
(***************************************************************************)
\* AxiomRule without the `antecedent.len() > 0` test.
AxiomRule_NoLenTest(C) ==
    IF C.antecedent = C.succedent THEN "true"
    ELSE IF ~IsEmpty(C.antecedent) THEN "false"
    ELSE IF Len(C.succedent) # 1 THEN "false"
    ELSE IF suc_last(C)[1] = "Equal" THEN Bool(suc_last(C)[2] = suc_last(C)[3])
    ELSE "false"

AxiomRule(C) ==
    IF C.antecedent = C.succedent /\ Len(C.antecedent) > 0 THEN "true"
    ELSE IF ~IsEmpty(C.antecedent) THEN "false"
    ELSE IF Len(C.succedent) # 1 THEN "false"
    ELSE IF suc_last(C)[1] = "Equal" THEN Bool(suc_last(C)[2] = suc_last(C)[3])
    ELSE "false"

\* WeakeningLeft that does not compare the succedents.
WeakeningLeft_NoSuccedent(P, C) ==
    IF IsEmpty(C.antecedent) THEN "panic"
    ELSE Bool(P.antecedent = ant_but_first(C))

WeakeningLeft(P, C) ==
    IF IsEmpty(C.antecedent) THEN "panic"
    ELSE IF P.antecedent # ant_but_first(C) THEN "false"
    ELSE Bool(P.succedent = C.succedent)

WeakeningRight(P, C) ==
    IF P.antecedent # C.antecedent THEN "false"
    ELSE IF IsEmpty(C.succedent) THEN "panic"
    ELSE Bool(P.succedent = suc_but_last(C))

ContractionLeft(P, C) ==
    IF Len(P.antecedent) < 2 THEN "panic"
    ELSE IF ant_first(P) # P.antecedent[2] THEN "false"
    ELSE IF ant_but_first(P) # C.antecedent THEN "false"
    ELSE Bool(P.succedent = C.succedent)

ContractionRight(P, C) ==
    IF P.antecedent # C.antecedent THEN "false"
    ELSE IF Len(P.succedent) < 2 THEN "panic"
    ELSE IF suc_but_last(P)[Len(P.succedent) - 1] # suc_last(P) THEN "false"
    ELSE Bool(suc_but_last(P) = C.succedent)

\* ExchangeLoop without the comparison of the tails p[i + 2..] == c[i + 2..].
RECURSIVE ExchangeLoop_NoTails(_, _, _)
ExchangeLoop_NoTails(p, c, i) ==
    IF i >= Len(p) - 1 THEN "false"
    ELSE IF i > Len(c) THEN "panic"
    ELSE IF SubSeq(p, 1, i) # SubSeq(c, 1, i) THEN ExchangeLoop_NoTails(p, c, i + 1)
    ELSE IF i + 2 > Len(c) THEN "panic"
    ELSE IF p[i + 1] # c[i + 2] THEN ExchangeLoop_NoTails(p, c, i + 1)
    ELSE IF p[i + 2] # c[i + 1] THEN ExchangeLoop_NoTails(p, c, i + 1)
    ELSE "true"

\* The loop `for i in 0..p.len() - 1` of the Exchange arms from index i on
\* (i counts from 0 as in the source; p, c are the exchanged lists).
RECURSIVE ExchangeLoop(_, _, _)
ExchangeLoop(p, c, i) ==
    IF i >= Len(p) - 1 THEN "false"
    ELSE IF i > Len(c) THEN "panic"
    ELSE IF SubSeq(p, 1, i) # SubSeq(c, 1, i) THEN ExchangeLoop(p, c, i + 1)
    ELSE IF i + 2 > Len(c) THEN "panic"
    ELSE IF SubSeq(p, i + 3, Len(p)) # SubSeq(c, i + 3, Len(c)) THEN ExchangeLoop(p, c, i + 1)
    ELSE IF p[i + 1] # c[i + 2] THEN ExchangeLoop(p, c, i + 1)
    ELSE IF p[i + 2] # c[i + 1] THEN ExchangeLoop(p, c, i + 1)
    ELSE "true"

\* p.len() - 1 on an empty list: the subtraction overflows (a panic in a
\* debug build); wrapped, the first pass of the loop fails on p[2..].
ExchangeLeft(P, C) ==
    IF P.succedent # C.succedent THEN "false"
    ELSE IF IsEmpty(P.antecedent) THEN "panic"
    ELSE ExchangeLoop(P.antecedent, C.antecedent, 0)

ExchangeRight(P, C) ==
    IF P.antecedent # C.antecedent THEN "false"
    ELSE IF IsEmpty(P.succedent) THEN "panic"
    ELSE ExchangeLoop(P.succedent, C.succedent, 0)

AndLeft1(P, C) ==
    IF IsEmpty(P.antecedent) \/ IsEmpty(C.antecedent) THEN "panic"
    ELSE IF ant_but_first(P) # ant_but_first(C) THEN "false"
    ELSE IF P.succedent # C.succedent THEN "false"
    ELSE IF ant_first(C)[1] = "And" THEN Bool(ant_first(C)[2] = ant_first(P))
    ELSE "false"

AndLeft2(P, C) ==
    IF IsEmpty(P.antecedent) \/ IsEmpty(C.antecedent) THEN "panic"
    ELSE IF ant_but_first(P) # ant_but_first(C) THEN "false"
    ELSE IF P.succedent # C.succedent THEN "false"
    ELSE IF ant_first(C)[1] = "And" THEN Bool(ant_first(C)[3] = ant_first(P))
    ELSE "false"

\* AndRight that does not compare the right premise's antecedent.
AndRight_NoRightAnt(L, R, C) ==
    IF L.antecedent # C.antecedent THEN "false"
    ELSE IF IsEmpty(L.succedent) \/ IsEmpty(C.succedent) THEN "panic"
    ELSE IF suc_but_last(L) # suc_but_last(C) THEN "false"
    ELSE IF IsEmpty(R.succedent) THEN "panic"
    ELSE IF suc_but_last(R) # suc_but_last(C) THEN "false"
    ELSE IF suc_last(C)[1] = "And"
         THEN Bool(suc_last(L) = suc_last(C)[2] /\ suc_last(R) = suc_last(C)[3])
    ELSE "false"

AndRight(L, R, C) ==
    IF L.antecedent # C.antecedent THEN "false"
    ELSE IF R.antecedent # C.antecedent THEN "false"
    ELSE IF IsEmpty(L.succedent) \/ IsEmpty(C.succedent) THEN "panic"
    ELSE IF suc_but_last(L) # suc_but_last(C) THEN "false"
    ELSE IF IsEmpty(R.succedent) THEN "panic"
    ELSE IF suc_but_last(R) # suc_but_last(C) THEN "false"
    ELSE IF suc_last(C)[1] = "And"
         THEN Bool(suc_last(L) = suc_last(C)[2] /\ suc_last(R) = suc_last(C)[3])
    ELSE "false"

OrLeft(L, R, C) ==
    IF L.succedent # C.succedent THEN "false"
    ELSE IF R.succedent # C.succedent THEN "false"
    ELSE IF IsEmpty(L.antecedent) \/ IsEmpty(C.antecedent) THEN "panic"
    ELSE IF ant_but_first(L) # ant_but_first(C) THEN "false"
    ELSE IF IsEmpty(R.antecedent) THEN "panic"
    ELSE IF ant_but_first(R) # ant_but_first(C) THEN "false"
    ELSE IF ant_first(C)[1] = "Or"
         THEN Bool(ant_first(L) = ant_first(C)[2] /\ ant_first(R) = ant_first(C)[3])
    ELSE "false"

OrRight1(P, C) ==
    IF P.antecedent # C.antecedent THEN "false"
    ELSE IF IsEmpty(P.succedent) \/ IsEmpty(C.succedent) THEN "panic"
    ELSE IF suc_but_last(P) # suc_but_last(C) THEN "false"
    ELSE IF suc_last(C)[1] = "Or" THEN Bool(suc_last(C)[2] = suc_last(P))
    ELSE "false"

OrRight2(P, C) ==
    IF P.antecedent # C.antecedent THEN "false"
    ELSE IF IsEmpty(P.succedent) \/ IsEmpty(C.succedent) THEN "panic"
    ELSE IF suc_but_last(P) # suc_but_last(C) THEN "false"
    ELSE IF suc_last(C)[1] = "Or" THEN Bool(suc_last(C)[3] = suc_last(P))
    ELSE "false"

\* ImpliesLeft joining the antecedent contexts in the other order (Pi, Gamma).
ImpliesLeft_PiGamma(L, R, C) ==
    IF IsEmpty(L.succedent) \/ IsEmpty(R.antecedent) \/ IsEmpty(C.antecedent) THEN "panic"
    ELSE LET gamma == L.antecedent
             delta == suc_but_last(L)
             fml1 == suc_last(L)
             fml2 == ant_first(R)
             pi == ant_but_first(R)
             sigma == R.succedent
         IN  IF ant_but_first(C) # pi \o gamma THEN "false"
             ELSE IF C.succedent # delta \o sigma THEN "false"
             ELSE IF ant_first(C)[1] = "Implies"
                  THEN Bool(ant_first(C)[2] = fml1 /\ ant_first(C)[3] = fml2)
             ELSE "false"

ImpliesLeft(L, R, C) ==
    IF IsEmpty(L.succedent) \/ IsEmpty(R.antecedent) \/ IsEmpty(C.antecedent) THEN "panic"
    ELSE LET gamma == L.antecedent
             delta == suc_but_last(L)
             fml1 == suc_last(L)
             fml2 == ant_first(R)
             pi == ant_but_first(R)
             sigma == R.succedent
         IN  IF ant_but_first(C) # gamma \o pi THEN "false"
             ELSE IF C.succedent # delta \o sigma THEN "false"
             ELSE IF ant_first(C)[1] = "Implies"
                  THEN Bool(ant_first(C)[2] = fml1 /\ ant_first(C)[3] = fml2)
             ELSE "false"

\* ImpliesRight matching Implies(lhs, rhs) against the premise formulas in the
\* other order.
ImpliesRight_Swapped(P, C) ==
    IF IsEmpty(P.antecedent) THEN "panic"
    ELSE IF ant_but_first(P) # C.antecedent THEN "false"
    ELSE IF IsEmpty(P.succedent) \/ IsEmpty(C.succedent) THEN "panic"
    ELSE IF suc_but_last(P) # suc_but_last(C) THEN "false"
    ELSE IF suc_last(C)[1] = "Implies"
         THEN Bool(suc_last(C)[3] = ant_first(P) /\ suc_last(C)[2] = suc_last(P))
    ELSE "false"

ImpliesRight(P, C) ==
    IF IsEmpty(P.antecedent) THEN "panic"
    ELSE IF ant_but_first(P) # C.antecedent THEN "false"
    ELSE IF IsEmpty(P.succedent) \/ IsEmpty(C.succedent) THEN "panic"
    ELSE IF suc_but_last(P) # suc_but_last(C) THEN "false"
    ELSE IF suc_last(C)[1] = "Implies"
         THEN Bool(suc_last(C)[2] = ant_first(P) /\ suc_last(C)[3] = suc_last(P))
    ELSE "false"

NotLeft(P, C) ==
    IF IsEmpty(C.antecedent) THEN "panic"
    ELSE IF P.antecedent # ant_but_first(C) THEN "false"
    ELSE IF IsEmpty(P.succedent) THEN "panic"
    ELSE IF suc_but_last(P) # C.succedent THEN "false"
    ELSE IF ant_first(C)[1] = "Not" THEN Bool(ant_first(C)[2] = suc_last(P))
    ELSE "false"

NotRight(P, C) ==
    IF IsEmpty(P.antecedent) THEN "panic"
    ELSE IF ant_but_first(P) # C.antecedent THEN "false"
    ELSE IF IsEmpty(C.succedent) THEN "panic"
    ELSE IF P.succedent # suc_but_last(C) THEN "false"
    ELSE IF suc_last(C)[1] = "Not" THEN Bool(suc_last(C)[2] = ant_first(P))
    ELSE "false"

\* InstantiationLoop that substitutes every candidate, substitutible or not.
RECURSIVE InstantiationLoop_NoCaptureTest(_, _, _, _, _)
InstantiationLoop_NoCaptureTest(fml, var, target, it, i) ==
    IF i > Len(it) THEN "false"
    ELSE IF substitute(fml, var, it[i]) = target THEN "true"
    ELSE InstantiationLoop_NoCaptureTest(fml, var, target, it, i + 1)

\* The witness search of the instantiation arms (ForallLeft, ExistsRight)
\* from the i-th candidate on: `it` lists the candidate terms in the order
\* the HashSet returned by get_subterms yields them.
RECURSIVE InstantiationLoop(_, _, _, _, _)
InstantiationLoop(fml, var, target, it, i) ==
    IF i > Len(it) THEN "false"
    ELSE IF is_substitutible(fml, var, it[i])
         THEN IF substitute(fml, var, it[i]) = target THEN "true"
              ELSE InstantiationLoop(fml, var, target, it, i + 1)
    ELSE "false"

\* The free variables of the formulas of a list (flat_map get_free_vars).
ListFreeVars(list) == UNION {get_free_vars(list[i]) : i \in DOMAIN list}

\* GeneralizationLoop that looks the eigenvariable up in side1 only.
RECURSIVE GeneralizationLoop_OneSide(_, _, _, _, _, _, _)
GeneralizationLoop_OneSide(fml, term, target, side1, side2, it, i) ==
    IF i > Len(it) THEN "false"
    ELSE IF /\ is_substitutible(fml, term, it[i])
            /\ substitute(fml, term, it[i]) = target
            /\ it[i] \notin ListFreeVars(side1)
         THEN "true"
    ELSE GeneralizationLoop_OneSide(fml, term, target, side1, side2, it, i + 1)

\* The witness search of the generalization arms (ForallRight, ExistsLeft):
\* `it` lists the free variables of the premise formula in iteration order;
\* side1, side2 are the two context lists the eigenvariable is looked up in.
RECURSIVE GeneralizationLoop(_, _, _, _, _, _, _)
GeneralizationLoop(fml, term, target, side1, side2, it, i) ==
    IF i > Len(it) THEN "false"
    ELSE IF /\ is_substitutible(fml, term, it[i])
            /\ substitute(fml, term, it[i]) = target
            /\ it[i] \notin ListFreeVars(side1)
            /\ it[i] \notin ListFreeVars(side2)
         THEN "true"
    ELSE GeneralizationLoop(fml, term, target, side1, side2, it, i + 1)

ForallLeft(P, C, it) ==
    IF P.succedent # C.succedent THEN "false"
    ELSE IF IsEmpty(P.antecedent) \/ IsEmpty(C.antecedent) THEN "panic"
    ELSE IF ant_but_first(P) # ant_but_first(C) THEN "false"
    ELSE IF ant_first(C)[1] = "Forall"
         THEN LET var == ant_first(C)[2]
                  fml == ant_first(C)[3]
              IN  IF var \notin get_bound_vars(fml)
                  THEN InstantiationLoop(fml, var, ant_first(P), it, 1)
                  ELSE "false"
    ELSE "false"

ForallRight(P, C, it) ==
    IF P.antecedent # C.antecedent THEN "false"
    ELSE IF IsEmpty(P.succedent) \/ IsEmpty(C.succedent) THEN "panic"
    ELSE IF suc_but_last(P) # suc_but_last(C) THEN "false"
    ELSE IF suc_last(C)[1] = "Forall"
         THEN GeneralizationLoop(suc_last(C)[3], suc_last(C)[2], suc_last(P),
                                 P.antecedent, suc_but_last(P), it, 1)
    ELSE "false"

ExistsRight(P, C, it) ==
    IF P.antecedent # C.antecedent THEN "false"
    ELSE IF IsEmpty(P.succedent) \/ IsEmpty(C.succedent) THEN "panic"
    ELSE IF suc_but_last(P) # suc_but_last(C) THEN "false"
    ELSE IF suc_last(C)[1] = "Exists" /\ suc_last(C)[2][1] = "Var"
         THEN LET var == suc_last(C)[2]
                  fml == suc_last(C)[3]
              IN  IF var \notin get_bound_vars(fml)
                  THEN InstantiationLoop(fml, var, suc_last(P), it, 1)
                  ELSE "false"
    ELSE "false"

ExistsLeft(P, C, it) ==
    IF P.succedent # C.succedent THEN "false"
    ELSE IF IsEmpty(P.antecedent) \/ IsEmpty(C.antecedent) THEN "panic"
    ELSE IF ant_but_first(P) # ant_but_first(C) THEN "false"
    ELSE IF ant_first(C)[1] = "Exists"
         THEN GeneralizationLoop(ant_first(C)[3], ant_first(C)[2], ant_first(P),
                                 P.succedent, ant_but_first(P), it, 1)
    ELSE "false"

Cut(L, R, C) ==
    IF IsEmpty(L.succedent) \/ IsEmpty(R.antecedent) THEN "panic"
    ELSE IF suc_last(L) # ant_first(R) THEN "false"
    ELSE LET gamma == L.antecedent
             delta == suc_but_last(L)
             pi == ant_but_first(R)
             sigma == R.succedent
         IN  IF C.antecedent # gamma \o delta THEN "false"
             ELSE Bool(C.succedent = pi \o sigma)

UnaryRules == {"WeakeningLeft", "WeakeningRight", "ContractionLeft", "ContractionRight",
               "ExchangeLeft", "ExchangeRight", "AndLeft1", "AndLeft2", "OrRight1",
               "OrRight2", "ImpliesRight", "NotLeft", "NotRight", "ForallLeft",
               "ForallRight", "ExistsLeft", "ExistsRight"}

BinaryRules == {"AndRight", "OrLeft", "ImpliesLeft", "Cut"}

\* All the enumeration orders of a finite set, as sequences.
Orders(S) ==
    {s \in [1..Cardinality(S) -> S] : \A e \in S : \E i \in DOMAIN s : s[i] = e}

\* The HashSet a quantifier arm iterates for its witness (get_subterms or
\* get_free_vars of the premise's principal formula); empty for other arms.
IteratedSet(n) ==
    LET P == last(n.premises[1])
    IN  CASE n.rule = "ForallLeft" /\ ~IsEmpty(P.antecedent) -> get_subterms(ant_first(P))
          [] n.rule = "ExistsRight" /\ ~IsEmpty(P.succedent) -> get_subterms(suc_last(P))
          [] n.rule = "ForallRight" /\ ~IsEmpty(P.succedent) -> get_free_vars(suc_last(P))
          [] n.rule = "ExistsLeft" /\ ~IsEmpty(P.antecedent) -> get_free_vars(ant_first(P))
          [] OTHER -> {}

\* A HashSet's iteration order is not fixed by its contents (std's RandomState
\* seeds each set), so an evaluation may meet any of these orders.
IterOrders(n) == Orders(IteratedSet(n))

\* is_valid_inference on node n, when the witness candidates of a quantifier
\* arm are iterated in the order `it`.
is_valid_inference(n, it) ==
    LET C == n.sequent
        P == last(n.premises[1])
        L == last(n.premises[1])
        R == last(n.premises[2])
    IN  CASE n.rule = "Axiom" -> AxiomRule(C)
          [] n.rule = "WeakeningLeft" -> WeakeningLeft(P, C)
          [] n.rule = "WeakeningRight" -> WeakeningRight(P, C)
          [] n.rule = "ContractionLeft" -> ContractionLeft(P, C)
          [] n.rule = "ContractionRight" -> ContractionRight(P, C)
          [] n.rule = "ExchangeLeft" -> ExchangeLeft(P, C)
          [] n.rule = "ExchangeRight" -> ExchangeRight(P, C)
          [] n.rule = "AndLeft1" -> AndLeft1(P, C)
          [] n.rule = "AndLeft2" -> AndLeft2(P, C)
          [] n.rule = "AndRight" -> AndRight(L, R, C)
          [] n.rule = "OrLeft" -> OrLeft(L, R, C)
          [] n.rule = "OrRight1" -> OrRight1(P, C)
          [] n.rule = "OrRight2" -> OrRight2(P, C)
          [] n.rule = "ImpliesLeft" -> ImpliesLeft(L, R, C)
          [] n.rule = "ImpliesRight" -> ImpliesRight(P, C)
          [] n.rule = "NotLeft" -> NotLeft(P, C)
          [] n.rule = "NotRight" -> NotRight(P, C)
          [] n.rule = "ForallLeft" -> ForallLeft(P, C, it)
          [] n.rule = "ForallRight" -> ForallRight(P, C, it)
          [] n.rule = "ExistsRight" -> ExistsRight(P, C, it)
          [] n.rule = "ExistsLeft" -> ExistsLeft(P, C, it)
          [] n.rule = "Cut" -> Cut(L, R, C)

(***************************************************************************)
(* The checker as a state machine: a node is presented (pc = "ready"),     *)
(* is_valid_inference is evaluated on it (pc = "checked"), and the caller  *)
(* may then present a second node, which is evaluated in turn; prevNode    *)
(* and prevResult keep the first evaluation's node and outcome.            *)
(***************************************************************************)
NoNode == LK("None", <<>>, Sequent(<<>>, <<>>))

Check ==
    /\ pc = "ready"
    /\ \E it \in IterOrders(node) : result' = is_valid_inference(node, it)
    /\ pc' = "checked"
    /\ UNCHANGED <<node, prevNode, prevResult, rendered, tokenizerVars>>

\* The caller presents node n after the evaluation of the current one, whose
\* node and outcome are kept in prevNode and prevResult.
Present(n) ==
    /\ pc = "checked"
    /\ prevNode = NoNode
    /\ prevNode' = node
    /\ prevResult' = result
    /\ node' = n
    /\ result' = "none"
    /\ pc' = "ready"
    /\ UNCHANGED <<rendered, tokenizerVars>>

\* The second evaluation has ended.
Rechecked == pc = "checked" /\ prevNode # NoNode

\* The state in which node n has been presented and nothing evaluated yet.
InitNode(n) ==
    /\ node = n
    /\ result = "none"
    /\ prevNode = NoNode
    /\ prevResult = "none"
    /\ pc = "ready"
    /\ rendered = <<>>
    /\ iter = <<>>
    /\ tokens = <<>>
    /\ input = <<>>
    /\ returned = <<>>
    /\ calls = 0

(***************************************************************************)
(* Bounded inputs.                                                         *)
(***************************************************************************)
\* The lists over S of length at most n.
SeqsUpTo(S, n) == UNION {[1..k -> S] : k \in 0..n}

x == Var("x")
y == Var("y")
c == Func("c", <<>>)

p == Pred("p", <<>>)
q == Pred("q", <<>>)
r == Pred("r", <<>>)

\* The longest antecedent / succedent of an Axiom node.
MaxAxiomLen == 2

AxiomFormulas == {Equal(x, x), Equal(x, y), Equal(c, c), p}

InitAxiom ==
    \E ant \in SeqsUpTo(AxiomFormulas, MaxAxiomLen),
       suc \in SeqsUpTo(AxiomFormulas, MaxAxiomLen) :
        InitNode(Axiom(Sequent(ant, suc)))

NextAxiom == Check

SpecAxiom == InitAxiom /\ [][NextAxiom]_vars

\* C6: is_valid_inference(Axiom(S)) is true iff S.antecedent == S.succedent
\* with a non-empty antecedent, or the antecedent is empty and the succedent
\* is exactly one formula Equal(s, t) with s == t; otherwise it is false, and
\* it never fails.
C6_AxiomContract ==
    (pc = "checked" /\ node.rule = "Axiom") =>
        LET S == node.sequent
        IN  result = Bool(\/ (S.antecedent = S.succedent /\ Len(S.antecedent) > 0)
                          \/ /\ Len(S.antecedent) = 0
                             /\ Len(S.succedent) = 1
                             /\ S.succedent[1][1] = "Equal"
                             /\ S.succedent[1][2] = S.succedent[1][3])

\* The reflexivity axiom  => c = c  is accepted.
C6_Witness ==
    /\ pc = "checked"
    /\ node = Axiom(Sequent(<<>>, <<Equal(c, c)>>))
    /\ result = "true"

(***************************************************************************)
(* Two-premise rules: AndRight, OrLeft, ImpliesLeft, Cut.                  *)
(***************************************************************************)
\* The longest context list (Gamma, Delta, Pi, Sigma) of a premise.
MaxCtx == 1

CtxP == SeqsUpTo({p}, MaxCtx)
CtxQ == SeqsUpTo({q}, MaxCtx)
\* The longest context list of the conclusion of a two-premise node.
MaxConcl == 2

ConclLists == SeqsUpTo({p, q}, MaxConcl)

\* L = Gamma => Delta, a    R = b, Pi => Sigma    C = [X,] ant => suc
InitSplit(rule, principals) ==
    \E gamma \in CtxP, delta \in CtxP, pi \in CtxQ, sigma \in CtxQ,
       a \in {p, q}, b \in {p, q}, X \in principals,
       ant \in ConclLists, suc \in ConclLists :
        InitNode(LK(rule,
                    <<Axiom(Sequent(gamma, delta \o <<a>>)),
                      Axiom(Sequent(<<b>> \o pi, sigma))>>,
                    Sequent(X \o ant, suc)))

InitImpliesLeft ==
    InitSplit("ImpliesLeft", {<<Implies(p, q)>>, <<Implies(q, p)>>, <<p>>})

SpecImpliesLeft == InitImpliesLeft /\ [][Check]_vars

\* C10: with L.succedent, R.antecedent and C.antecedent non-empty, ImpliesLeft
\* is accepted iff C.antecedent[1:] == L.antecedent ++ R.antecedent[1:],
\* C.succedent == L.succedent[:-1] ++ R.succedent, and C.antecedent[0] is
\* Implies(L.succedent[last], R.antecedent[0]).
C10_ImpliesLeftContract ==
    (/\ pc = "checked"
     /\ node.rule = "ImpliesLeft"
     /\ ~IsEmpty(last(node.premises[1]).succedent)
     /\ ~IsEmpty(last(node.premises[2]).antecedent)
     /\ ~IsEmpty(node.sequent.antecedent)) =>
        LET L == last(node.premises[1])
            R == last(node.premises[2])
            C == node.sequent
        IN  result = Bool(/\ Tail(C.antecedent) = L.antecedent \o Tail(R.antecedent)
                          /\ C.succedent = SubSeq(L.succedent, 1, Len(L.succedent) - 1) \o R.succedent
                          /\ C.antecedent[1] = Implies(L.succedent[Len(L.succedent)], R.antecedent[1]))

\* An accepted ImpliesLeft whose two premises have different contexts:
\* p => p, p    and    q, q => q    give    p > q, p, q => p, q.
C10_Witness ==
    /\ pc = "checked"
    /\ node.rule = "ImpliesLeft"
    /\ last(node.premises[1]) = Sequent(<<p>>, <<p, p>>)
    /\ last(node.premises[2]) = Sequent(<<q, q>>, <<q>>)
    /\ node.sequent = Sequent(<<Implies(p, q), p, q>>, <<p, q>>)
    /\ result = "true"

InitCut == InitSplit("Cut", {<<>>})

SpecCut == InitCut /\ [][Check]_vars

\* C1: with L.succedent and R.antecedent non-empty, Cut is accepted iff
\* L.succedent[last] == R.antecedent[0], C.antecedent == L.antecedent ++
\* R.antecedent[1:] and C.succedent == L.succedent[:-1] ++ R.succedent.
C1_CutStandard ==
    (/\ pc = "checked"
     /\ node.rule = "Cut"
     /\ ~IsEmpty(last(node.premises[1]).succedent)
     /\ ~IsEmpty(last(node.premises[2]).antecedent)) =>
        LET L == last(node.premises[1])
            R == last(node.premises[2])
            C == node.sequent
        IN  result = Bool(/\ L.succedent[Len(L.succedent)] = R.antecedent[1]
                          /\ C.antecedent = L.antecedent \o Tail(R.antecedent)
                          /\ C.succedent = SubSeq(L.succedent, 1, Len(L.succedent) - 1) \o R.succedent)

\* Additive two-premise rules: the premises are  G1 => D1, a  and
\* G2 => D2, b  for AndRight, and  a, D1 => G1  and  b, D2 => G2  for OrLeft.
SharedCtx == SeqsUpTo({p, q}, MaxCtx)

InitAndRight ==
    \E g1 \in SharedCtx, g2 \in SharedCtx, g3 \in SharedCtx,
       d1 \in CtxP, d2 \in CtxP, d3 \in CtxP,
       a \in {p, q}, b \in {p, q}, X \in {<<And(p, q)>>, <<And(q, p)>>, <<p>>} :
        InitNode(LK("AndRight",
                    <<Axiom(Sequent(g1, d1 \o <<a>>)), Axiom(Sequent(g2, d2 \o <<b>>))>>,
                    Sequent(g3, d3 \o X)))

InitOrLeft ==
    \E g1 \in SharedCtx, g2 \in SharedCtx, g3 \in SharedCtx,
       d1 \in CtxP, d2 \in CtxP, d3 \in CtxP,
       a \in {p, q}, b \in {p, q}, X \in {<<Or(p, q)>>, <<Or(q, p)>>, <<p>>} :
        InitNode(LK("OrLeft",
                    <<Axiom(Sequent(<<a>> \o d1, g1)), Axiom(Sequent(<<b>> \o d2, g2))>>,
                    Sequent(X \o d3, g3)))

InitAdditive == InitAndRight \/ InitOrLeft

SpecAdditive == InitAdditive /\ [][Check]_vars

\* C9: with the three succedents non-empty, AndRight is accepted iff both
\* premises have the conclusion's antecedent and the conclusion's
\* succedent[:-1], and C.succedent[last] is And(L.succedent[last],
\* R.succedent[last]); OrLeft, with the three antecedents non-empty, iff both
\* premises have the conclusion's succedent and antecedent[1:], and
\* C.antecedent[0] is Or(L.antecedent[0], R.antecedent[0]).
C9_AdditiveContract ==
    LET L == last(node.premises[1])
        R == last(node.premises[2])
        C == node.sequent
        ButLast(list) == SubSeq(list, 1, Len(list) - 1)
        Last(list) == list[Len(list)]
    IN  /\ (/\ pc = "checked"
            /\ node.rule = "AndRight"
            /\ ~IsEmpty(L.succedent) /\ ~IsEmpty(R.succedent) /\ ~IsEmpty(C.succedent)) =>
               result = Bool(/\ L.antecedent = C.antecedent
                             /\ R.antecedent = C.antecedent
                             /\ ButLast(L.succedent) = ButLast(C.succedent)
                             /\ ButLast(R.succedent) = ButLast(C.succedent)
                             /\ Last(C.succedent) = And(Last(L.succedent), Last(R.succedent)))
        /\ (/\ pc = "checked"
            /\ node.rule = "OrLeft"
            /\ ~IsEmpty(L.antecedent) /\ ~IsEmpty(R.antecedent) /\ ~IsEmpty(C.antecedent)) =>
               result = Bool(/\ L.succedent = C.succedent
                             /\ R.succedent = C.succedent
                             /\ Tail(L.antecedent) = Tail(C.antecedent)
                             /\ Tail(R.antecedent) = Tail(C.antecedent)
                             /\ C.antecedent[1] = Or(L.antecedent[1], R.antecedent[1]))

\* The spec's scenario:  p => p   and   p => q   give   p => p ^ q.
C9_Witness ==
    /\ pc = "checked"
    /\ node.rule = "AndRight"
    /\ last(node.premises[1]) = Sequent(<<p>>, <<p>>)
    /\ last(node.premises[2]) = Sequent(<<p>>, <<q>>)
    /\ node.sequent = Sequent(<<p>>, <<And(p, q)>>)
    /\ result = "true"

(***************************************************************************)
(* Exchange rules.                                                         *)
(***************************************************************************)
\* The longest exchanged list, and the longest list of the other side.
MaxExchLen == 3
MaxSideLen == 1

ExchLists == SeqsUpTo({p, q, r}, MaxExchLen)
SideLists == SeqsUpTo({p}, MaxSideLen)

InitExchangeLeft ==
    \E pl \in ExchLists, cl \in ExchLists, ps \in SideLists, cs \in SideLists :
        InitNode(LK("ExchangeLeft", <<Axiom(Sequent(pl, ps))>>, Sequent(cl, cs)))

InitExchangeRight ==
    \E pl \in ExchLists, cl \in ExchLists, ps \in SideLists, cs \in SideLists :
        InitNode(LK("ExchangeRight", <<Axiom(Sequent(ps, pl))>>, Sequent(cs, cl)))

InitExchange == InitExchangeLeft \/ InitExchangeRight

SpecExchange == InitExchange /\ [][Check]_vars

\* The list with the elements at positions i and i + 1 swapped.
Swapped(list, i) == [list EXCEPT ![i] = list[i + 1], ![i + 1] = list[i]]

OneAdjacentTransposition(from, to) ==
    \E i \in 1..(Len(from) - 1) : to = Swapped(from, i)

\* C7: when the premise's and the conclusion's exchanged lists are non-empty
\* and of the same length, ExchangeLeft (ExchangeRight) is accepted iff the
\* other sides are equal and the conclusion's list is the premise's list with
\* two adjacent elements swapped.
C7_ExchangeContract ==
    LET P == last(node.premises[1])
        C == node.sequent
    IN  /\ (/\ pc = "checked"
            /\ node.rule = "ExchangeLeft"
            /\ Len(P.antecedent) > 0
            /\ Len(P.antecedent) = Len(C.antecedent)) =>
               result = Bool(/\ P.succedent = C.succedent
                             /\ OneAdjacentTransposition(P.antecedent, C.antecedent))
        /\ (/\ pc = "checked"
            /\ node.rule = "ExchangeRight"
            /\ Len(P.succedent) > 0
            /\ Len(P.succedent) = Len(C.succedent)) =>
               result = Bool(/\ P.antecedent = C.antecedent
                             /\ OneAdjacentTransposition(P.succedent, C.succedent))

\* p, q, r => p  exchanged into  p, r, q => p  is accepted.
C7_Witness ==
    /\ pc = "checked"
    /\ node.rule = "ExchangeLeft"
    /\ last(node.premises[1]) = Sequent(<<p, q, r>>, <<p>>)
    /\ node.sequent = Sequent(<<p, r, q>>, <<p>>)
    /\ result = "true"

(***************************************************************************)
(* Unary structural rules, and the mutation of an accepted conclusion.     *)
(***************************************************************************)
StructuralRules == {"WeakeningLeft", "WeakeningRight", "ContractionLeft",
                    "ContractionRight", "ExchangeLeft", "ExchangeRight"}

\* The longest antecedent / succedent of a structural node.
MaxStructLen == 2

StructLists == SeqsUpTo({p, q}, MaxStructLen)

InitStructural ==
    \E rule \in StructuralRules, pa \in StructLists, ps \in StructLists,
       ca \in StructLists, cs \in StructLists :
        InitNode(LK(rule, <<Axiom(Sequent(pa, ps))>>, Sequent(ca, cs)))

\* After an accepted evaluation the caller presents the same node with one
\* formula of the conclusion's antecedent replaced by a different formula.
MutateAntecedent ==
    /\ result = "true"
    /\ \E i \in 1..Len(node.sequent.antecedent), f \in {p, q, r} :
        /\ f # node.sequent.antecedent[i]
        /\ Present([node EXCEPT !.sequent.antecedent[i] = f])

\* The same, on the conclusion's succedent.
MutateSuccedent ==
    /\ result = "true"
    /\ \E i \in 1..Len(node.sequent.succedent), f \in {p, q, r} :
        /\ f # node.sequent.succedent[i]
        /\ Present([node EXCEPT !.sequent.succedent[i] = f])

NextStructural == Check \/ MutateAntecedent \/ MutateSuccedent

SpecStructural == InitStructural /\ [][NextStructural]_vars

\* The mutation replaced the formula that the weakening introduced.
WeakenedFormulaMutated ==
    \/ /\ prevNode.rule = "WeakeningLeft"
       /\ node.sequent.antecedent[1] # prevNode.sequent.antecedent[1]
    \/ /\ prevNode.rule = "WeakeningRight"
       /\ node.sequent.succedent[Len(node.sequent.succedent)]
            # prevNode.sequent.succedent[Len(prevNode.sequent.succedent)]

\* C8 (as stated): after replacing any one formula of the conclusion of an
\* accepted unary structural node by a different formula, the node is rejected.
C8_AnyMutationRejected ==
    (Rechecked /\ prevNode.rule \in StructuralRules /\ prevResult = "true") =>
        result = "false"

\* C8 (amended): the node is rejected unless the replaced formula is the one
\* the weakening introduced (C.antecedent[0] of WeakeningLeft,
\* C.succedent[last] of WeakeningRight).
C8_MutationRejected ==
    (/\ Rechecked
     /\ prevNode.rule \in StructuralRules
     /\ prevResult = "true"
     /\ ~WeakenedFormulaMutated) =>
        result = "false"

\* An accepted WeakeningLeft whose conclusion is mutated at its second
\* antecedent formula, and is then rejected.
C8_Witness ==
    /\ Rechecked
    /\ prevNode.rule = "WeakeningLeft"
    /\ prevResult = "true"
    /\ Len(node.sequent.antecedent) = 2
    /\ node.sequent.antecedent[2] # prevNode.sequent.antecedent[2]
    /\ result = "false"

(***************************************************************************)
(* Quantifier rules.                                                       *)
(***************************************************************************)
QVars == {x, y}
QTerms == {x, y, c}

\* The atoms R(s, t), and the formulas with at most one binder over an atom.
Atoms == {Pred("R", <<s, t>>) : s \in QTerms, t \in QTerms}
Bodies == Atoms \cup {<<Q, w, a>> : Q \in {"Forall"}, w \in QVars, a \in Atoms}
                \cup {<<Q, w, a>> : Q \in {"Exists"}, w \in QVars, a \in Atoms}

\* The principal formulas of a conclusion: a binder over a body, or an atom.
Principals(Q) == {<<Q, v, f>> : v \in QVars, f \in Bodies} \cup {Pred("R", <<x, y>>)}

\* The longest context list of a quantifier node; its formulas have x free.
MaxQCtx == 1

QCtx == SeqsUpTo({Pred("R", <<x, c>>)}, MaxQCtx)

\* Rules whose principal formula is the first of the antecedent.
InitQuantLeft(rule, Q, ctx) ==
    \E pf \in Bodies, cf \in Principals(Q),
       pa \in ctx, ps \in ctx, ca \in ctx, cs \in ctx :
        InitNode(LK(rule, <<Axiom(Sequent(<<pf>> \o pa, ps))>>, Sequent(<<cf>> \o ca, cs)))

\* Rules whose principal formula is the last of the succedent.
InitQuantRight(rule, Q, ctx) ==
    \E pf \in Bodies, cf \in Principals(Q),
       pa \in ctx, ps \in ctx, ca \in ctx, cs \in ctx :
        InitNode(LK(rule, <<Axiom(Sequent(pa, ps \o <<pf>>))>>, Sequent(ca, cs \o <<cf>>)))

InitInstantiation ==
    InitQuantLeft("ForallLeft", "Forall", QCtx) \/ InitQuantRight("ExistsRight", "Exists", QCtx)

SpecInstantiation == InitInstantiation /\ [][Check]_vars

\* There is a term t among the subterms of the premise formula pf with
\* isSubstitutible(fml, v, t) and substitute(fml, v, t) == pf.
HasWitnessTerm(fml, v, pf) ==
    \E t \in get_subterms(pf) : is_substitutible(fml, v, t) /\ substitute(fml, v, t) = pf

\* C2: with non-empty antecedents, ForallLeft is accepted iff the succedents
\* are equal, the antecedents agree after their first formula,
\* C.antecedent[0] is Forall(v, fml) with v not bound in fml, and some subterm
\* of P.antecedent[0] is a witness; whatever the order of the candidates.
\* ExistsRight: the dual on the last succedent formula.
C2_InstantiationContract ==
    LET P == last(node.premises[1])
        C == node.sequent
        pfL == P.antecedent[1]
        cfL == C.antecedent[1]
        pfR == P.succedent[Len(P.succedent)]
        cfR == C.succedent[Len(C.succedent)]
    IN  /\ (/\ pc = "checked"
            /\ node.rule = "ForallLeft"
            /\ ~IsEmpty(P.antecedent) /\ ~IsEmpty(C.antecedent)) =>
               result = Bool(/\ P.succedent = C.succedent
                             /\ Tail(P.antecedent) = Tail(C.antecedent)
                             /\ cfL[1] = "Forall"
                             /\ cfL[2] \notin get_bound_vars(cfL[3])
                             /\ HasWitnessTerm(cfL[3], cfL[2], pfL))
        /\ (/\ pc = "checked"
            /\ node.rule = "ExistsRight"
            /\ ~IsEmpty(P.succedent) /\ ~IsEmpty(C.succedent)) =>
               result = Bool(/\ P.antecedent = C.antecedent
                             /\ SubSeq(P.succedent, 1, Len(P.succedent) - 1)
                                  = SubSeq(C.succedent, 1, Len(C.succedent) - 1)
                             /\ cfR[1] = "Exists"
                             /\ cfR[2] \notin get_bound_vars(cfR[3])
                             /\ HasWitnessTerm(cfR[3], cfR[2], pfR))

InitGeneralization ==
    InitQuantRight("ForallRight", "Forall", QCtx) \/ InitQuantLeft("ExistsLeft", "Exists", QCtx)

SpecGeneralization == InitGeneralization /\ [][Check]_vars

\* There is a variable w free in the premise formula pf with
\* isSubstitutible(fml, v, w), substitute(fml, v, w) == pf, and w free in no
\* formula of the two context lists.
HasEigenvariable(fml, v, pf, side1, side2) ==
    \E w \in get_free_vars(pf) :
        /\ is_substitutible(fml, v, w)
        /\ substitute(fml, v, w) = pf
        /\ \A i \in DOMAIN side1 : w \notin get_free_vars(side1[i])
        /\ \A i \in DOMAIN side2 : w \notin get_free_vars(side2[i])

\* C3: with non-empty succedents, ForallRight is accepted iff the antecedents
\* are equal, the succedents agree before their last formula,
\* C.succedent[last] is Forall(v, fml), and a free variable of
\* P.succedent[last] is a witness that is free neither in P.antecedent nor in
\* P.succedent[:-1].  ExistsLeft: the dual, the eigenvariable looked up in
\* P.succedent and P.antecedent[1:].
C3_GeneralizationContract ==
    LET P == last(node.premises[1])
        C == node.sequent
        pfL == P.antecedent[1]
        cfL == C.antecedent[1]
        pfR == P.succedent[Len(P.succedent)]
        cfR == C.succedent[Len(C.succedent)]
        ButLast(list) == SubSeq(list, 1, Len(list) - 1)
    IN  /\ (/\ pc = "checked"
            /\ node.rule = "ForallRight"
            /\ ~IsEmpty(P.succedent) /\ ~IsEmpty(C.succedent)) =>
               result = Bool(/\ P.antecedent = C.antecedent
                             /\ ButLast(P.succedent) = ButLast(C.succedent)
                             /\ cfR[1] = "Forall"
                             /\ HasEigenvariable(cfR[3], cfR[2], pfR,
                                                 P.antecedent, ButLast(P.succedent)))
        /\ (/\ pc = "checked"
            /\ node.rule = "ExistsLeft"
            /\ ~IsEmpty(P.antecedent) /\ ~IsEmpty(C.antecedent)) =>
               result = Bool(/\ P.succedent = C.succedent
                             /\ Tail(P.antecedent) = Tail(C.antecedent)
                             /\ cfL[1] = "Exists"
                             /\ HasEigenvariable(cfL[3], cfL[2], pfL,
                                                 P.succedent, Tail(P.antecedent)))

\* R(x, c) => R(y, c)  generalized to  R(x, c) => Forall x. R(x, c)  with the
\* eigenvariable y is accepted.
C3_Witness ==
    /\ pc = "checked"
    /\ node.rule = "ForallRight"
    /\ last(node.premises[1]) = Sequent(<<Pred("R", <<x, c>>)>>, <<Pred("R", <<y, c>>)>>)
    /\ node.sequent = Sequent(<<Pred("R", <<x, c>>)>>, <<Forall(x, Pred("R", <<x, c>>))>>)
    /\ result = "true"

(***************************************************************************)
(* Two calls on the same node.                                             *)
(***************************************************************************)
NoCtx == {<<>>}

InitRepeat ==
    \/ InitQuantLeft("ForallLeft", "Forall", NoCtx)
    \/ InitQuantRight("ExistsRight", "Exists", NoCtx)
    \/ InitQuantRight("ForallRight", "Forall", NoCtx)
    \/ InitQuantLeft("ExistsLeft", "Exists", NoCtx)

\* The caller calls is_valid_inference again on the node just evaluated.
CallAgain == Present(node)

NextRepeat == Check \/ CallAgain

SpecRepeat == InitRepeat /\ [][NextRepeat]_vars

\* C5: two evaluations of is_valid_inference on the same node end in the
\* same outcome.
C5_Deterministic ==
    (Rechecked /\ node = prevNode) => result = prevResult

(***************************************************************************)
(* Nodes over premise subtrees of different shapes.                        *)
(***************************************************************************)
\* Some proof trees whose stored conclusion is S: a leaf, and trees of depth
\* two and three whose inner inferences need not be valid.
Subtrees(S) ==
    {Axiom(S),
     LK("WeakeningLeft", <<Axiom(Sequent(<<>>, <<>>))>>, S),
     LK("Cut", <<Axiom(Sequent(<<p>>, <<p>>)), Axiom(Sequent(<<q>>, <<>>))>>, S),
     LK("NotRight", <<LK("ExchangeLeft", <<Axiom(S)>>, S)>>, S)}

TreeLists == SeqsUpTo({p}, 1)

InitTreeUnary ==
    \E rule \in {"WeakeningLeft", "ContractionRight", "NotLeft"},
       pa \in TreeLists, ps \in TreeLists, ca \in TreeLists, cs \in TreeLists :
        \E sub \in Subtrees(Sequent(pa, ps)) :
            InitNode(LK(rule, <<sub>>, Sequent(ca, cs)))

InitTreeBinary ==
    \E la \in TreeLists, ra \in TreeLists, ca \in TreeLists,
       X \in {<<And(p, q)>>, <<And(q, p)>>} :
        \E lsub \in Subtrees(Sequent(la, <<p>>)), rsub \in Subtrees(Sequent(ra, <<q>>)) :
            InitNode(LK("AndRight", <<lsub, rsub>>, Sequent(ca, X)))

InitTreeQuantifier ==
    \E pf \in {Forall(y, Pred("R", <<x, y>>)), Forall(y, Pred("R", <<c, y>>)),
               Pred("R", <<x, x>>)},
       cf \in {Forall(x, Forall(y, Pred("R", <<x, y>>))), Forall(x, Pred("R", <<x, x>>))} :
        \E sub \in Subtrees(Sequent(<<pf>>, <<>>)) :
            InitNode(LK("ForallLeft", <<sub>>, Sequent(<<cf>>, <<>>)))

InitTree == InitTreeUnary \/ InitTreeBinary \/ InitTreeQuantifier

\* The caller presents a node with the same rule and conclusion, whose
\* premise subtrees are other trees with the same stored conclusions.
Regraft ==
    \E subs \in [DOMAIN node.premises ->
                    UNION {Subtrees(last(node.premises[i])) : i \in DOMAIN node.premises}] :
        /\ \A i \in DOMAIN subs : last(subs[i]) = last(node.premises[i])
        /\ \E i \in DOMAIN subs : subs[i] # node.premises[i]
        /\ Present([node EXCEPT !.premises = subs])

NextTree == Check \/ Regraft

SpecTree == InitTree /\ [][NextTree]_vars

\* The two nodes agree on the rule, the conclusion, and the stored
\* conclusions of their corresponding premise subtrees.
SameRootInference(m, n) ==
    /\ m.rule = n.rule
    /\ m.sequent = n.sequent
    /\ DOMAIN m.premises = DOMAIN n.premises
    /\ \A i \in DOMAIN m.premises : last(m.premises[i]) = last(n.premises[i])

\* C4: is_valid_inference gives the same outcome on two nodes that agree on
\* the root inference, however their premise subtrees differ below the roots.
C4_RootOnly ==
    (Rechecked /\ SameRootInference(prevNode, node)) => result = prevResult

(***************************************************************************)
(* One-premise propositional rules.                                        *)
(***************************************************************************)
PropositionalRules == {"AndLeft1", "AndLeft2", "OrRight1", "OrRight2",
                       "ImpliesRight", "NotLeft", "NotRight"}

\* The longest context list of a propositional node.
MaxPropLen == 1

PropLists == SeqsUpTo({p}, MaxPropLen)

\* The formula at the principal position of a premise list (none, p or q) and
\* of a conclusion list (none, or a compound of p and q).
PropHeads == {<<>>, <<p>>, <<q>>}
PropPrincipals ==
    {<<>>, <<And(p, q)>>, <<And(q, p)>>, <<Or(p, q)>>, <<Or(q, p)>>,
     <<Implies(p, q)>>, <<Implies(q, p)>>, <<Not(p)>>, <<Not(q)>>}

\* P = pX, pa => ps, pY     C = cX, ca => cs, cY
InitPropositional ==
    \E rule \in PropositionalRules,
       pa \in PropLists, ps \in PropLists, ca \in PropLists, cs \in PropLists,
       pX \in PropHeads, pY \in PropHeads, cX \in PropPrincipals, cY \in PropPrincipals :
        InitNode(LK(rule, <<Axiom(Sequent(pX \o pa, ps \o pY))>>, Sequent(cX \o ca, cs \o cY)))

SpecPropositional == InitPropositional /\ [][Check]_vars

\* C11: on a node of a one-premise propositional rule whose indexed lists are
\* non-empty, is_valid_inference returns exactly the value of the rule's
\* table contract (and so never fails).
C11_PropositionalContract ==
    LET P == last(node.premises[1])
        C == node.sequent
        First(list) == list[1]
        Last(list) == list[Len(list)]
        ButLast(list) == SubSeq(list, 1, Len(list) - 1)
        Checked(rule) == pc = "checked" /\ node.rule = rule
    IN  /\ (Checked("AndLeft1") /\ ~IsEmpty(P.antecedent) /\ ~IsEmpty(C.antecedent)) =>
               result = Bool(/\ First(C.antecedent)[1] = "And"
                             /\ First(P.antecedent) = First(C.antecedent)[2]
                             /\ Tail(P.antecedent) = Tail(C.antecedent)
                             /\ P.succedent = C.succedent)
        /\ (Checked("AndLeft2") /\ ~IsEmpty(P.antecedent) /\ ~IsEmpty(C.antecedent)) =>
               result = Bool(/\ First(C.antecedent)[1] = "And"
                             /\ First(P.antecedent) = First(C.antecedent)[3]
                             /\ Tail(P.antecedent) = Tail(C.antecedent)
                             /\ P.succedent = C.succedent)
        /\ (Checked("OrRight1") /\ ~IsEmpty(P.succedent) /\ ~IsEmpty(C.succedent)) =>
               result = Bool(/\ Last(C.succedent)[1] = "Or"
                             /\ Last(P.succedent) = Last(C.succedent)[2]
                             /\ ButLast(P.succedent) = ButLast(C.succedent)
                             /\ P.antecedent = C.antecedent)
        /\ (Checked("OrRight2") /\ ~IsEmpty(P.succedent) /\ ~IsEmpty(C.succedent)) =>
               result = Bool(/\ Last(C.succedent)[1] = "Or"
                             /\ Last(P.succedent) = Last(C.succedent)[3]
                             /\ ButLast(P.succedent) = ButLast(C.succedent)
                             /\ P.antecedent = C.antecedent)
        /\ (/\ Checked("ImpliesRight")
            /\ ~IsEmpty(P.antecedent) /\ ~IsEmpty(P.succedent) /\ ~IsEmpty(C.succedent)) =>
               result = Bool(/\ Tail(P.antecedent) = C.antecedent
                             /\ ButLast(P.succedent) = ButLast(C.succedent)
                             /\ Last(C.succedent)
                                  = Implies(First(P.antecedent), Last(P.succedent)))
        /\ (Checked("NotLeft") /\ ~IsEmpty(C.antecedent) /\ ~IsEmpty(P.succedent)) =>
               result = Bool(/\ P.antecedent = Tail(C.antecedent)
                             /\ ButLast(P.succedent) = C.succedent
                             /\ First(C.antecedent) = Not(Last(P.succedent)))
        /\ (Checked("NotRight") /\ ~IsEmpty(P.antecedent) /\ ~IsEmpty(C.succedent)) =>
               result = Bool(/\ Tail(P.antecedent) = C.antecedent
                             /\ P.succedent = ButLast(C.succedent)
                             /\ Last(C.succedent) = Not(First(P.antecedent)))

\* An accepted ImpliesRight:  p, p => p, q  gives  p => p, p > q.
C11_Witness ==
    /\ pc = "checked"
    /\ node.rule = "ImpliesRight"
    /\ last(node.premises[1]) = Sequent(<<p, p>>, <<p, q>>)
    /\ node.sequent = Sequent(<<p>>, <<p, Implies(p, q)>>)
    /\ result = "true"

(***************************************************************************)
(* Capture in the instantiation rules.                                     *)
(***************************************************************************)
\* There is a term t with isSubstitutible(fml, v, t) and
\* substitute(fml, v, t) == pf.
HasCaptureFreeWitness(fml, v, pf) ==
    \E t \in QTerms \cup get_subterms(pf) :
        is_substitutible(fml, v, t) /\ substitute(fml, v, t) = pf

\* pf is obtained from fml by substituting some term for v, but only by terms
\* that a binder of fml captures.
OnlyByCapture(fml, v, pf) ==
    /\ \E t \in QTerms \cup get_subterms(pf) : substitute(fml, v, t) = pf
    /\ ~HasCaptureFreeWitness(fml, v, pf)

\* C12: an accepted ForallLeft (ExistsRight) node with principal formula
\* Forall(v, fml) (Exists(v, fml)) has a term t with isSubstitutible(fml, v, t)
\* and substitute(fml, v, t) equal to the premise's first antecedent (last
\* succedent) formula; a step whose premise formula is obtained from fml only
\* by a capturing substitution is not accepted.
C12_NoCaptureAccepted ==
    LET P == last(node.premises[1])
        C == node.sequent
        pfL == P.antecedent[1]
        cfL == C.antecedent[1]
        pfR == P.succedent[Len(P.succedent)]
        cfR == C.succedent[Len(C.succedent)]
    IN  /\ (pc = "checked" /\ node.rule = "ForallLeft" /\ result = "true") =>
               /\ cfL[1] = "Forall"
               /\ HasCaptureFreeWitness(cfL[3], cfL[2], pfL)
        /\ (pc = "checked" /\ node.rule = "ExistsRight" /\ result = "true") =>
               /\ cfR[1] = "Exists"
               /\ HasCaptureFreeWitness(cfR[3], cfR[2], pfR)
        /\ (/\ pc = "checked"
            /\ node.rule = "ForallLeft"
            /\ ~IsEmpty(P.antecedent) /\ ~IsEmpty(C.antecedent)
            /\ cfL[1] = "Forall"
            /\ OnlyByCapture(cfL[3], cfL[2], pfL)) => result = "false"
        /\ (/\ pc = "checked"
            /\ node.rule = "ExistsRight"
            /\ ~IsEmpty(P.succedent) /\ ~IsEmpty(C.succedent)
            /\ cfR[1] = "Exists"
            /\ OnlyByCapture(cfR[3], cfR[2], pfR)) => result = "false"

\* The capturing step  Forall y. R(y, y) =>  to  Forall x. Forall y. R(x, y) =>
\* (y substituted for x under the binder of y) is rejected.
C12_Witness ==
    /\ pc = "checked"
    /\ node.rule = "ForallLeft"
    /\ last(node.premises[1]) = Sequent(<<Forall(y, Pred("R", <<y, y>>))>>, <<>>)
    /\ node.sequent = Sequent(<<Forall(x, Forall(y, Pred("R", <<x, y>>)))>>, <<>>)
    /\ OnlyByCapture(Forall(y, Pred("R", <<x, y>>)), x, Forall(y, Pred("R", <<y, y>>)))
    /\ result = "false"

(***************************************************************************)
(* Nodes whose sequents have empty lists, for every rule.                  *)
(***************************************************************************)
\* The longest antecedent / succedent of these nodes.
MaxPreLen == 1

PreLists == SeqsUpTo({p, q}, MaxPreLen)

InitPreUnary ==
    \E rule \in UnaryRules,
       pa \in PreLists, ps \in PreLists, ca \in PreLists, cs \in PreLists :
        InitNode(LK(rule, <<Axiom(Sequent(pa, ps))>>, Sequent(ca, cs)))

InitPreBinary ==
    \E rule \in BinaryRules,
       la \in PreLists, ls \in PreLists, ra \in PreLists, rs \in PreLists,
       ca \in PreLists, cs \in PreLists :
        InitNode(LK(rule, <<Axiom(Sequent(la, ls)), Axiom(Sequent(ra, rs))>>, Sequent(ca, cs)))

InitPrecondition == InitPreUnary \/ InitPreBinary

SpecPrecondition == InitPrecondition /\ [][Check]_vars

\* Some list that the contract of n's rule takes the first / all-but-first
\* (antecedent) or the last / all-but-last (succedent) of is empty.
IndexedListEmpty(n) ==
    LET C == n.sequent
        P == last(n.premises[1])
        L == last(n.premises[1])
        R == last(n.premises[2])
    IN  CASE n.rule = "WeakeningLeft" -> IsEmpty(C.antecedent)
          [] n.rule = "WeakeningRight" -> IsEmpty(C.succedent)
          [] n.rule = "ContractionLeft" -> IsEmpty(P.antecedent)
          [] n.rule = "ContractionRight" -> IsEmpty(P.succedent)
          [] n.rule \in {"AndLeft1", "AndLeft2", "ForallLeft", "ExistsLeft"} ->
                IsEmpty(P.antecedent) \/ IsEmpty(C.antecedent)
          [] n.rule \in {"OrRight1", "OrRight2", "ForallRight", "ExistsRight"} ->
                IsEmpty(P.succedent) \/ IsEmpty(C.succedent)
          [] n.rule = "AndRight" ->
                IsEmpty(L.succedent) \/ IsEmpty(R.succedent) \/ IsEmpty(C.succedent)
          [] n.rule = "OrLeft" ->
                IsEmpty(L.antecedent) \/ IsEmpty(R.antecedent) \/ IsEmpty(C.antecedent)
          [] n.rule = "ImpliesLeft" ->
                IsEmpty(L.succedent) \/ IsEmpty(R.antecedent) \/ IsEmpty(C.antecedent)
          [] n.rule = "ImpliesRight" ->
                IsEmpty(P.antecedent) \/ IsEmpty(P.succedent) \/ IsEmpty(C.succedent)
          [] n.rule = "NotLeft" -> IsEmpty(C.antecedent) \/ IsEmpty(P.succedent)
          [] n.rule = "NotRight" -> IsEmpty(P.antecedent) \/ IsEmpty(C.succedent)
          [] n.rule = "Cut" -> IsEmpty(L.succedent) \/ IsEmpty(R.antecedent)
          [] OTHER -> FALSE

\* C13: when a list that the rule's contract indexes is empty,
\* is_valid_inference fails with a precondition error; it does not return
\* false (nor true), whatever the other parts of the sequents are.
C13_PreconditionFails ==
    (pc = "checked" /\ IndexedListEmpty(node)) => result = "panic"

(***************************************************************************)
(* Tokenizer (src/src/tokenizer.rs).  A string is the sequence of its      *)
(* characters; a token is a tuple whose first component is the variant     *)
(* name, a Symbol carrying its text.                                       *)
(***************************************************************************)
Token(name) == <<name>>
Symbol(text) == <<"Symbol", text>>

\* The characters that `match s` of _tokenize maps to a token of their own.
SpecialChars == {"(", ")", "~", "^", "v", ">", "=", "V", "E"}

SpecialToken(s) ==
    CASE s = "(" -> Token("LParen")
      [] s = ")" -> Token("RParen")
      [] s = "~" -> Token("Not")
      [] s = "^" -> Token("And")
      [] s = "v" -> Token("Or")
      [] s = ">" -> Token("Implies")
      [] s = "=" -> Token("Equal")
      [] s = "V" -> Token("Forall")
      [] s = "E" -> Token("Exists")

\* The characters at which the closure of take_while_ref stops.
SymbolEnd == {"(", ")", "=", "V", "E", " "}

\* std's Iterator::take_while in its place: the character that failed the
\* test is consumed.
RECURSIVE take_while(_)
take_while(it) ==
    IF it = <<>> THEN [taken |-> <<>>, rest |-> <<>>]
    ELSE IF Head(it) \in SymbolEnd THEN [taken |-> <<>>, rest |-> Tail(it)]
    ELSE LET more == take_while(Tail(it))
         IN  [taken |-> <<Head(it)>> \o more.taken, rest |-> more.rest]

\* itertools' take_while_ref on the closure of _tokenize: `taken` is the
\* longest prefix of `it` without a character of SymbolEnd, `rest` the
\* iterator afterwards; the character that failed the test is put back.
RECURSIVE take_while_ref(_)
take_while_ref(it) ==
    IF it = <<>> \/ Head(it) \in SymbolEnd THEN [taken |-> <<>>, rest |-> it]
    ELSE LET more == take_while_ref(Tail(it))
         IN  [taken |-> <<Head(it)>> \o more.taken, rest |-> more.rest]

\* Tokenizer::_tokenize on self = [iter, tokens]: the fields when the
\* recursion returns.
RECURSIVE _tokenize(_)
_tokenize(self) ==
    IF self.iter = <<>> THEN self
    ELSE LET s == Head(self.iter)
             rest == Tail(self.iter)
         IN  IF s = " " THEN _tokenize([self EXCEPT !.iter = rest])
             ELSE IF s \in SpecialChars
                  THEN _tokenize([iter |-> rest,
                                  tokens |-> Append(self.tokens, SpecialToken(s))])
             ELSE LET symbol == take_while_ref(rest)
                  IN  _tokenize([iter |-> symbol.rest,
                                 tokens |-> Append(self.tokens,
                                                   Symbol(<<s>> \o symbol.taken))])

\* Tokenizer::new
new == [iter |-> <<>>, tokens |-> <<>>]

\* tokenize that does not clear the tokens of the earlier call.
tokenize_NoClear(self, s) ==
    LET out == _tokenize([iter |-> s, tokens |-> self.tokens])
    IN  [iter |-> out.iter, tokens |-> out.tokens, returned |-> out.tokens]

\* Tokenizer::tokenize(s) on self: the fields afterwards, and the vector
\* returned (tokens.to_vec()).
tokenize(self, s) ==
    LET out == _tokenize([iter |-> s, tokens |-> <<>>])
    IN  [iter |-> out.iter, tokens |-> out.tokens, returned |-> out.tokens]

\* The most tokenize calls made on one Tokenizer.
MaxCalls == 3

\* A caller calls tokenize(s) on the Tokenizer.
CallTokenize(s) ==
    /\ pc = "tokenizer"
    /\ calls < MaxCalls
    /\ LET out == tokenize([iter |-> iter, tokens |-> tokens], s)
       IN  /\ iter' = out.iter
           /\ tokens' = out.tokens
           /\ returned' = out.returned
    /\ input' = s
    /\ calls' = calls + 1
    /\ UNCHANGED <<checkerVars, pc, rendered>>

\* A Tokenizer just created, with s the string it is going to be given.
InitTokenizer(s) ==
    /\ node = NoNode
    /\ result = "none"
    /\ prevNode = NoNode
    /\ prevResult = "none"
    /\ pc = "tokenizer"
    /\ rendered = <<>>
    /\ iter = new.iter
    /\ tokens = new.tokens
    /\ input = s
    /\ returned = <<>>
    /\ calls = 0

Alphabet == {"(", ")", "~", "^", "v", ">", "=", "V", "E", " ", "a", "b"}

\* The longest input string.
MaxInputLen == 4

\* The input of the test tokenizer_works.
TestInput ==
    <<"(", "V", "x", "0", " ", "(", "E", "x", "1", " ", "(", "^",
      " ", "(", "=", " ", "(", "a", " ", "x", " ", "y", ")", " ",
      "(", "b", " ", "x", " ", "y", ")", ")", " ", "(", "v", " ",
      "(", "~", " ", "(", "p", " ", "y", ")", ")", " ", "q", ")",
      ")", ")", ")">>

\* The token sequence the test expects.
TestTokens ==
    <<Token("LParen"), Token("Forall"), Symbol(<<"x", "0">>), Token("LParen"),
      Token("Exists"), Symbol(<<"x", "1">>), Token("LParen"), Token("And"),
      Token("LParen"), Token("Equal"), Token("LParen"), Symbol(<<"a">>),
      Symbol(<<"x">>), Symbol(<<"y">>), Token("RParen"), Token("LParen"),
      Symbol(<<"b">>), Symbol(<<"x">>), Symbol(<<"y">>), Token("RParen"),
      Token("RParen"), Token("LParen"), Token("Or"), Token("LParen"),
      Token("Not"), Token("LParen"), Symbol(<<"p">>), Symbol(<<"y">>),
      Token("RParen"), Token("RParen"), Symbol(<<"q">>), Token("RParen"),
      Token("RParen"), Token("RParen"), Token("RParen")>>

InitTokenize == \E s \in SeqsUpTo(Alphabet, MaxInputLen) \cup {TestInput} : InitTokenizer(s)

\* The first call on the new Tokenizer, with the string drawn.
TokenizeInput == calls = 0 /\ CallTokenize(input)

SpecTokenize == InitTokenize /\ [][TokenizeInput]_vars

\* The token sequence of s read from position i on, when `cur` is the text
\* of the symbol being read (empty at a token start) and acc the tokens read
\* so far: a symbol runs up to, and not including, the next character of
\* ( ) = V E or space, which is then read at a token start.
RECURSIVE Scan(_, _, _, _)
Scan(s, i, cur, acc) ==
    IF i > Len(s) THEN (IF cur = <<>> THEN acc ELSE Append(acc, Symbol(cur)))
    ELSE IF cur # <<>>
         THEN IF s[i] \in {"(", ")", "=", "V", "E", " "}
              THEN Scan(s, i, <<>>, Append(acc, Symbol(cur)))
              ELSE Scan(s, i + 1, Append(cur, s[i]), acc)
    ELSE IF s[i] = " " THEN Scan(s, i + 1, <<>>, acc)
    ELSE IF s[i] \in SpecialChars THEN Scan(s, i + 1, <<>>, Append(acc, SpecialToken(s[i])))
    ELSE Scan(s, i + 1, <<s[i]>>, acc)

\* C14: tokenize consumes the whole input and returns, left to right, no
\* token for a space, the matching token for a special character at a token
\* start, and one Symbol for any other character at a token start followed
\* by the maximal run of characters other than ( ) = V E and space; the
\* character ending a symbol is tokenized next.  The test's input yields the
\* test's 35 tokens.
C14_TokenizeContract ==
    (pc = "tokenizer" /\ calls = 1) =>
        /\ iter = <<>>
        /\ IF input = TestInput THEN returned = TestTokens /\ Len(returned) = 35
           ELSE returned = Scan(input, 1, <<>>, <<>>)

\* The symbol "av" ended by "(":  av(  gives  Symbol("av"), LParen.
C14_Witness ==
    /\ pc = "tokenizer"
    /\ calls = 1
    /\ input = <<"a", "v", "(">>
    /\ returned = <<Symbol(<<"a", "v">>), Token("LParen")>>

(***************************************************************************)
(* The proof-tree renderer (proof.rs:137-321).  A String is the sequence   *)
(* of its lines (what split("\n") returns), a line the sequence of its     *)
(* characters.                                                             *)
(***************************************************************************)
Spaces(n) == [i \in 1..n |-> " "]
Dashes(n) == [i \in 1..n |-> "-"]

\* s.split('\n').last().unwrap()
LastLine(s) == s[Len(s)]

\* The number of spaces a line begins with, and ends with.
LeadingSpaces(line) ==
    CHOOSE k \in 0..Len(line) :
        /\ \A i \in 1..k : line[i] = " "
        /\ k = Len(line) \/ line[k + 1] # " "

TrailingSpaces(line) ==
    CHOOSE k \in 0..Len(line) :
        /\ \A i \in 1..k : line[Len(line) + 1 - i] = " "
        /\ k = Len(line) \/ line[Len(line) - k] # " "

_get_prefix_spaces(s) == LeadingSpaces(LastLine(s))

_get_suffix_spaces(s) == TrailingSpaces(LastLine(s))

_last_line_len(s) == Len(LastLine(s)) - _get_prefix_spaces(s)

\* A character of the source outside ASCII is written as one ASCII character.
_get_label(self) ==
    CASE self.rule = "Axiom" -> <<"(", "a", "x", ")">>
      [] self.rule = "WeakeningLeft" -> <<"(", "w", "L", ")">>
      [] self.rule = "WeakeningRight" -> <<"(", "w", "R", ")">>
      [] self.rule = "ContractionLeft" -> <<"(", "c", "L", ")">>
      [] self.rule = "ContractionRight" -> <<"(", "c", "R", ")">>
      [] self.rule = "ExchangeLeft" -> <<"(", "x", "L", ")">>
      [] self.rule = "ExchangeRight" -> <<"(", "x", "R", ")">>
      [] self.rule = "AndLeft1" -> <<"(", "&", "L", "1", ")">>
      [] self.rule = "AndLeft2" -> <<"(", "&", "L", "2", ")">>
      [] self.rule = "AndRight" -> <<"(", "&", "R", ")">>
      [] self.rule = "OrLeft" -> <<"(", "|", "L", ")">>
      [] self.rule = "OrRight1" -> <<"(", "|", "R", "1", ")">>
      [] self.rule = "OrRight2" -> <<"(", "|", "R", "2", ")">>
      [] self.rule = "ImpliesLeft" -> <<"(", ">", "L", ")">>
      [] self.rule = "ImpliesRight" -> <<"(", ">", "R", ")">>
      [] self.rule = "NotLeft" -> <<"(", "~", "L", ")">>
      [] self.rule = "NotRight" -> <<"(", "~", "R", ")">>
      [] self.rule = "ForallLeft" -> <<"(", "A", "L", ")">>
      [] self.rule = "ForallRight" -> <<"(", "A", "R", ")">>
      [] self.rule = "ExistsLeft" -> <<"(", "E", "L", ")">>
      [] self.rule = "ExistsRight" -> <<"(", "E", "R", ")">>
      [] self.rule = "Cut" -> <<"(", "C", "u", "t", ")">>

\* The text of a formula (Display of Formula, crate::language): a predicate
\* symbol without arguments prints as its name.
fmt_formula(f) == <<f[2]>>

\* list.iter().map(|fml| format!("{}", fml)).collect().join(", ")
RECURSIVE join_formulas(_)
join_formulas(list) ==
    IF list = <<>> THEN <<>>
    ELSE IF Len(list) = 1 THEN fmt_formula(list[1])
    ELSE fmt_formula(list[1]) \o <<",", " ">> \o join_formulas(Tail(list))

\* Display for Sequent: the antecedent, " =>  " with the arrow as one
\* character, the succedent.
fmt_sequent(s) ==
    join_formulas(s.antecedent) \o <<" ", ">", " ", " ">> \o join_formulas(s.succedent)

\* Rust's integer division by two, rounding toward zero.
HalfTowardZero(a) == IF a >= 0 THEN a \div 2 ELSE -((-a) \div 2)

\* The outcome of a rendering that fails: the separator line needs
\* parent_body_len + 1 dashes, which overflows (or cannot be allocated) when a
\* negative length was cast to u32.  The 32 bits of a u32 are written here as
\* the signed number they are as an i32: n < 0 stands for the u32 2^32 + n.
RenderFailure == <<<<"panic">>>>

MaxOf(a, b) == IF a >= b THEN a ELSE b

\* Every line extended with spaces to the length of the longest.
PadLines(lines) ==
    LET max_len == CHOOSE m \in {Len(lines[i]) : i \in DOMAIN lines} :
                       \A i \in DOMAIN lines : Len(lines[i]) <= m
    IN  [i \in DOMAIN lines |-> lines[i] \o Spaces(max_len - Len(lines[i]))]

\* parent_body_len is the u32 argument, as a signed number.
_join_sequent_str(self, parent_str, sequent_str, parent_body_prefix, parent_body_len) ==
    LET sequent_len == Len(sequent_str)
        offset == HalfTowardZero(parent_body_len - sequent_len) + parent_body_prefix
        shifted_parent == IF offset > 0 THEN parent_str
                          ELSE [l \in DOMAIN parent_str |-> Spaces(-offset) \o parent_str[l]]
        shifted_sequent == IF offset > 0 THEN Spaces(offset) \o sequent_str ELSE sequent_str
        offset0 == IF offset > 0 THEN offset ELSE 0
        sep_line == IF parent_body_len >= 0 /\ sequent_len > parent_body_len
                    THEN Spaces(offset0) \o Dashes(sequent_len + 1) \o _get_label(self)
                    ELSE Spaces(parent_body_prefix) \o Dashes(parent_body_len + 1)
                           \o _get_label(self)
    IN  IF parent_body_len < 0 THEN RenderFailure
        ELSE PadLines(shifted_parent \o <<sep_line, shifted_sequent>>)

\* LK::to_string
RECURSIVE to_string(_)
to_string(self) ==
    IF self.rule = "Axiom" THEN <<fmt_sequent(self.sequent)>>
    ELSE IF self.rule \in UnaryRules
    THEN LET parent_str == to_string(self.premises[1])
             parent_len == Len(LastLine(parent_str))
             prefix_spaces == _get_prefix_spaces(parent_str)
             suffix_spaces == _get_suffix_spaces(parent_str)
             parent_body_len == parent_len - prefix_spaces - suffix_spaces
         IN  IF parent_str = RenderFailure THEN RenderFailure
             ELSE _join_sequent_str(self, parent_str, fmt_sequent(self.sequent),
                                    prefix_spaces, parent_body_len)
    ELSE LET left_str == to_string(self.premises[1])
             right_str == to_string(self.premises[2])
             prefix_spaces == _get_prefix_spaces(left_str)
             suffix_spaces == _get_suffix_spaces(right_str)
             left_lines == Len(left_str)
             right_lines == Len(right_str)
             lines == MaxOf(left_lines, right_lines)
             lefts == [i \in 1..(lines - left_lines) |-> <<>>] \o left_str
             rights == [i \in 1..(lines - right_lines) |-> <<>>] \o right_str
             parent_str == [l \in 1..lines |-> lefts[l] \o Spaces(4) \o rights[l]]
             parent_body_len == _last_line_len(parent_str) - prefix_spaces - suffix_spaces
         IN  IF left_str = RenderFailure \/ right_str = RenderFailure THEN RenderFailure
             ELSE _join_sequent_str(self, parent_str, fmt_sequent(self.sequent),
                                    prefix_spaces, parent_body_len)

\* A caller renders the node.
Render ==
    /\ pc = "ready"
    /\ rendered' = to_string(node)
    /\ pc' = "rendered"
    /\ UNCHANGED <<checkerVars, tokenizerVars>>

\* The longest antecedent / succedent of a rendered sequent.
MaxRenderLen == 1

RenderSequents ==
    {Sequent(a, s) : a \in SeqsUpTo({p}, MaxRenderLen), s \in SeqsUpTo({p}, MaxRenderLen)}

\* Premise trees of one, three and five lines.
RenderTrees ==
    {Axiom(S) : S \in RenderSequents}
        \cup {LK("NotRight", <<Axiom(S)>>, T) : S \in RenderSequents, T \in RenderSequents}
        \cup {LK("WeakeningLeft", <<LK("Cut", <<Axiom(S), Axiom(S)>>, S)>>, Sequent(<<p>>, <<>>)) :
                S \in RenderSequents}

InitRender ==
    \E rule \in BinaryRules, lhs \in RenderTrees, rhs \in RenderTrees, S \in RenderSequents :
        InitNode(LK(rule, <<lhs, rhs>>, S))

SpecRender == InitRender /\ [][Render]_vars

\* The lines of `block` appear in the rows of `text` that end at row
\* `bottom`, all starting after the same number of columns.
AlignedIn(text, block, bottom) ==
    \E col \in 0..Len(text[1]) :
        \A i \in DOMAIN block :
            LET row == text[bottom - Len(block) + i]
            IN  /\ col + Len(block[i]) <= Len(row)
                /\ SubSeq(row, col + 1, col + Len(block[i])) = block[i]

\* C15: in the rendering of a two-premise node, the lines of the left
\* premise's rendered block all start at one common column, and so do the
\* lines of the right premise's block, whatever the heights of the blocks.
C15_PremiseBlocksAligned ==
    (pc = "rendered" /\ node.rule \in BinaryRules) =>
        LET left_str == to_string(node.premises[1])
            right_str == to_string(node.premises[2])
            height == MaxOf(Len(left_str), Len(right_str))
        IN  /\ Len(rendered) = height + 2
            /\ AlignedIn(rendered, left_str, height)
            /\ AlignedIn(rendered, right_str, height)

(***************************************************************************)
(* The eigenvariable of a generalization and the conclusion.               *)
(***************************************************************************)
\* There is a variable w (one of QVars, or a variable occurring nowhere) with
\* substitute(fml, v, w) == pf that occurs free in no formula of C.
HasFreshEigenvariable(fml, v, pf, C) ==
    \E w \in QVars \cup {Var("z")} :
        /\ substitute(fml, v, w) = pf
        /\ w \notin ListFreeVars(C.antecedent)
        /\ w \notin ListFreeVars(C.succedent)

\* C16: an accepted ForallRight node with C.succedent[last] = Forall(v, fml)
\* has a variable y with substitute(fml, v, y) == P.succedent[last] that is
\* free in no formula of C, Forall(v, fml) included; an accepted ExistsLeft
\* node likewise for C.antecedent[0] = Exists(v, fml).
C16_EigenvariableFresh ==
    LET P == last(node.premises[1])
        C == node.sequent
        pfL == P.antecedent[1]
        cfL == C.antecedent[1]
        pfR == P.succedent[Len(P.succedent)]
        cfR == C.succedent[Len(C.succedent)]
    IN  /\ (pc = "checked" /\ node.rule = "ForallRight" /\ result = "true") =>
               HasFreshEigenvariable(cfR[3], cfR[2], pfR, C)
        /\ (pc = "checked" /\ node.rule = "ExistsLeft" /\ result = "true") =>
               HasFreshEigenvariable(cfL[3], cfL[2], pfL, C)

(***************************************************************************)
(* Exchange nodes over lists of any lengths.                               *)
(***************************************************************************)
\* C17: on every ExchangeLeft / ExchangeRight node, whatever the lengths of
\* the exchanged lists (empty, of one element, of different lengths),
\* is_valid_inference returns a boolean, and false when no position i exists
\* at which the two lists differ by swapping positions i and i + 1; it never
\* ends in an index or arithmetic failure.
C17_ExchangeNeverFails ==
    LET P == last(node.premises[1])
        C == node.sequent
    IN  /\ (pc = "checked" /\ node.rule = "ExchangeLeft") =>
               /\ result \in {"true", "false"}
               /\ ~OneAdjacentTransposition(P.antecedent, C.antecedent) => result = "false"
        /\ (pc = "checked" /\ node.rule = "ExchangeRight") =>
               /\ result \in {"true", "false"}
               /\ ~OneAdjacentTransposition(P.succedent, C.succedent) => result = "false"

(***************************************************************************)
(* Several tokenize calls on one Tokenizer.                                *)
(***************************************************************************)
ReuseAlphabet == {"(", "v", "V", " ", "a"}

\* The longest input string of a reused Tokenizer.
MaxReuseLen == 3

InitReuse == InitTokenizer(<<>>)

\* The caller calls tokenize on the same Tokenizer with any string.
TokenizeAny == \E s \in SeqsUpTo(ReuseAlphabet, MaxReuseLen) : CallTokenize(s)

SpecReuse == InitReuse /\ [][TokenizeAny]_vars

\* C18: after any sequence of tokenize calls on one Tokenizer, the vector the
\* latest call tokenize(s) returned is the vector tokenize(s) returns on a
\* new Tokenizer, and it equals the stored tokens field.
C18_NoStateCarried ==
    (pc = "tokenizer" /\ calls > 0) =>
        /\ returned = tokenize(new, input).returned
        /\ returned = tokens

\* A second call, on "a", after a first call that returned tokens.
C18_Witness ==
    /\ pc = "tokenizer"
    /\ calls = 2
    /\ input = <<"a">>
    /\ returned = <<Symbol(<<"a">>)>>
    /\ tokens = returned

====
